---- MODULE Spec2Model ----
(***************************************************************************)
(* A model of the soccer practice-menu generator: the diagram compositor   *)
(* (src/src/image_composer.py), the spreadsheet image placement and        *)
(* temp-file handling (src/src/excel_generator.py) and the orchestration   *)
(* (src/src/agent.py).                                                     *)
(*                                                                         *)
(* Numbers.  Python floats are modelled by exact rationals.  A relative    *)
(* coordinate is a pair <<n, d>> standing for n/d; the inputs drawn are    *)
(* binary fractions (d a power of two), for which every product and sum    *)
(* the code forms is exact in double precision, and the tenths of the      *)
(* 1000x600 scenario, for which 0.7*1000, 0.3*1000 and 0.5*600 are exact   *)
(* as well.  int() is truncation toward zero.  math.sqrt is never          *)
(* evaluated: every use of it is a comparison, decided on squares.         *)
(*                                                                         *)
(* Images are modelled by their size and the list of drawing calls made    *)
(* on them, in the image's own coordinates.                                *)
(***************************************************************************)
EXTENDS Integers, Sequences, FiniteSets, TLC

VARIABLES
    pc,           \* position of the operation under way
    ground_size,  \* <<width, height>> of ImageComposer.ground_image
    seg,          \* arguments of one _create_arrow_image or _create_labeled_player call
    arrow,        \* what that call returned
    cur,          \* the segment the shortening step is re-applied to
    napplied,     \* how many times it was applied
    step,         \* the step dict given to compose_step_diagram_separate
    bundle,       \* what compose_step_diagram_separate returned, or raised
    display,      \* the display size and scale _add_separate_images computed
    practice_plan,\* the plan of the generate call under way
    step_images,  \* the bundles composed so far for that plan
    idx,          \* the loop index of the step being composed or embedded
    temp_files,   \* ExcelGenerator.temp_files
    tmpdir,       \* the image files present in tempfile.gettempdir()
    workbook,     \* the images added to the worksheet, by temp path
    saved,        \* the outputs workbook.save has written
    written,      \* the temp paths _save_temp_image wrote during the call
    calls,        \* the generate calls started on the agent, by method
    assets,       \* the files present in the assets directory
    heap,         \* the image objects alive: heap[ref] is the image ref names
    handed,       \* the image objects handed to callers, by method and ref
    gens,         \* ExcelGenerators of requests in flight at once, by request
    shared_tmp    \* tempfile.gettempdir() they share: path |-> who wrote it last

agentVars == <<practice_plan, step_images, idx, temp_files, tmpdir, workbook,
               saved, written, calls>>

assetVars == <<assets, heap, handed>>

flightVars == <<gens, shared_tmp>>

vars == <<pc, ground_size, seg, arrow, cur, napplied, step, bundle, display,
          agentVars, assetVars, flightVars>>

(***************************************************************************)
(* Bounds of the model.                                                    *)
(***************************************************************************)
MaxCoord == 9        \* pixel coordinates of arrow endpoints are 0..MaxCoord
MaxReapply == 2      \* re-applications of the shortening step
RelBits == 2         \* relative coordinates are multiples of 1 / 2^RelBits
MaxSmallGround == 4  \* small grounds are 1..MaxSmallGround pixels each way
MaxPlayers == 2      \* players of a sampled step
MaxMovements == 2    \* player movements of a sampled step
MaxBalls == 1        \* ball movements of a sampled step
MaxGroundW == 353    \* ground widths whose display size is computed
MaxGroundH == 203    \* ground heights whose display size is computed
MaxSteps == 2        \* steps of a practice plan
MaxRepeatSteps == 1  \* steps of the plan of a call that is not the agent's first
MaxCalls == 2        \* generate calls on one agent
MaxHanded == 3       \* image objects an ImageComposer makes for its callers

(***************************************************************************)
(* Program constants.                                                      *)
(***************************************************************************)
padding == 25
min_size == 40
line_width == 5
dash_length == 15
head_size == 18
BallOffset == 6
PlayerOffset == -6
min_person_size == 30
person_divisor == 15
label_height == 20
label_padding == 4
label_char_width == 8
max_width == 350
max_height == 200

None == "None"

\* the empty dict {}
EmptyDict == [k \in {} |-> 0]

\* the float 0.5, as numerator and denominator
Half == <<1, 2>>

\* dict.get(key, default)
Get(m, key, default) == IF key \in DOMAIN m THEN m[key] ELSE default

\* PracticeMenuAgent.__init__: a fresh ExcelGenerator, nothing generated
AgentConstructed ==
    /\ practice_plan = EmptyDict
    /\ step_images = << >>
    /\ idx = 0
    /\ temp_files = << >>
    /\ tmpdir = {}
    /\ workbook = << >>
    /\ saved = << >>
    /\ written = {}
    /\ calls = << >>

\* no second ExcelGenerator shares the temp directory
NoRequestInFlight ==
    /\ gens = << >>
    /\ shared_tmp = << >>

(***************************************************************************)
(* Arithmetic.                                                             *)
(***************************************************************************)
Abs(n) == IF n < 0 THEN -n ELSE n

Min(a, b) == IF a < b THEN a ELSE b

Max(a, b) == IF a > b THEN a ELSE b

\* int(n / d) for d > 0: Python's int() truncates toward zero.
int(n, d) == IF n >= 0 THEN n \div d ELSE -((-n) \div d)

\* floor(num / sqrt(L2)) for L2 > 0, decided on squares.
FloorOverSqrt(num, L2) ==
    IF num >= 0
    THEN CHOOSE k \in 0..num : k * k * L2 <= num * num
                                /\ (k + 1) * (k + 1) * L2 > num * num
    ELSE -(CHOOSE k \in 0..(-num) : k * k * L2 >= num * num
                                     /\ (k = 0 \/ (k - 1) * (k - 1) * L2 < num * num))

\* whether num / sqrt(L2) is an integer.
ExactOverSqrt(num, L2) == \E k \in 0..Abs(num) : k * k * L2 = num * num

\* int(base + num / sqrt(L2)) for integers base, num and L2 > 0.
intAddOverSqrt(base, num, L2) ==
    LET fl == base + FloorOverSqrt(num, L2)
    IN  IF fl >= 0 \/ ExactOverSqrt(num, L2) THEN fl ELSE fl + 1

\* int(math.sqrt(d2) / q) for q > 0.
intSqrtOver(d2, q) == CHOOSE k \in 0..d2 : (k * q) * (k * q) <= d2
                                            /\ ((k + 1) * q) * ((k + 1) * q) > d2

(***************************************************************************)
(* ImageComposer._create_arrow_image, step by step.                        *)
(* A segment is <<from_x, from_y, to_x, to_y>>.                            *)
(***************************************************************************)
Len2(s) == (s[3] - s[1]) * (s[3] - s[1]) + (s[4] - s[2]) * (s[4] - s[2])

\* the scaling left out: int(center + (v - center))
ScaleFromCenterUnscaled(v, a, b, rn, rd) == int(2 * v, 2)

\* int(center + (v - center) * ratio), center = (a + b) / 2, ratio = rn / rd
ScaleFromCenter(v, a, b, rn, rd) ==
    int((a + b) * rd + (2 * v - (a + b)) * rn, 2 * rd)

ShortenScaled(s, rn, rd) ==
    << ScaleFromCenter(s[1], s[1], s[3], rn, rd),
       ScaleFromCenter(s[2], s[2], s[4], rn, rd),
       ScaleFromCenter(s[3], s[1], s[3], rn, rd),
       ScaleFromCenter(s[4], s[2], s[4], rn, rd) >>

\* lines 235-243: the shortening step, length_ratio = rn / rd
Shorten(s, rn, rd) == IF rn < rd THEN ShortenScaled(s, rn, rd) ELSE s

\* the endpoints moved along the segment's direction instead of its normal
OffsetMovedAlong(s, off) ==
    LET dx == s[3] - s[1]
        dy == s[4] - s[2]
        L2 == dx * dx + dy * dy
    IN  << intAddOverSqrt(s[1], dx * off, L2),
           intAddOverSqrt(s[2], dy * off, L2),
           intAddOverSqrt(s[3], dx * off, L2),
           intAddOverSqrt(s[4], dy * off, L2) >>

\* lines 251-258: the four endpoints moved along the unit normal
OffsetMoved(s, off) ==
    LET dx == s[3] - s[1]
        dy == s[4] - s[2]
        L2 == dx * dx + dy * dy
    IN  << intAddOverSqrt(s[1], (-dy) * off, L2),
           intAddOverSqrt(s[2], dx * off, L2),
           intAddOverSqrt(s[3], (-dy) * off, L2),
           intAddOverSqrt(s[4], dx * off, L2) >>

\* lines 245-258: the perpendicular-offset step
ApplyOffset(s, off) ==
    IF off # 0 /\ Len2(s) > 0 THEN OffsetMoved(s, off) ELSE s

\* ImageComposer._draw_dashed_line: the dashes are recorded as one call
\* with the number of dashes drawn; nothing is drawn when distance == 0.
draw_dashed_line(x1, y1, x2, y2, fill, width, dlen) ==
    LET d2 == (x2 - x1) * (x2 - x1) + (y2 - y1) * (y2 - y1)
        n  == intSqrtOver(d2, dlen)
        dash_count == IF n = 0 THEN 1 ELSE n
    IN  IF d2 = 0
        THEN << >>
        ELSE << [op |-> "dashes", from |-> <<x1, y1>>, to |-> <<x2, y2>>,
                 fill |-> fill, width |-> width,
                 drawn |-> (dash_count + 1) \div 2] >>

\* draw.line of the solid style
draw_line(x1, y1, x2, y2, fill, width) ==
    << [op |-> "line", from |-> <<x1, y1>>, to |-> <<x2, y2>>,
        fill |-> fill, width |-> width] >>

\* ImageComposer._draw_arrow_head: a triangle with its tip at (x2, y2) and
\* two corners `size` away at 30 degrees either side of atan2(dy, dx);
\* atan2(0, 0) is 0, so a zero-length segment gets a head pointing right.
draw_arrow_head(x1, y1, x2, y2, fill, size) ==
    << [op |-> "polygon", tip |-> <<x2, y2>>, dir |-> <<x2 - x1, y2 - y1>>,
        fill |-> fill, size |-> size] >>

\* lines 284-295: the stroke, by style
draw_stroke(lx1, ly1, lx2, ly2, color, dashed) ==
    IF dashed
    THEN draw_dashed_line(lx1, ly1, lx2, ly2, color, line_width, dash_length)
    ELSE draw_line(lx1, ly1, lx2, ly2, color, line_width)

\* a bounding box that leaves no room around the segment
bbox_extent_unpadded(a, b) == Max(a, b) - Min(a, b)

\* lines 262-268: max + padding - (min - padding), on one axis
bbox_extent(a, b) == (Max(a, b) + padding) - (Min(a, b) - padding)

\* the image anchored by its top-left corner instead of its centre
render_arrow_corner_anchor(s, color, dashed) ==
    LET min_x == Min(s[1], s[3]) - padding
        min_y == Min(s[2], s[4]) - padding
        img_width  == Max(bbox_extent(s[1], s[3]), min_size)
        img_height == Max(bbox_extent(s[2], s[4]), min_size)
        lfx == s[1] - min_x
        lfy == s[2] - min_y
        ltx == s[3] - min_x
        lty == s[4] - min_y
    IN  [image |-> [width |-> img_width, height |-> img_height,
                    ops |-> draw_stroke(lfx, lfy, ltx, lty, color, dashed)
                            \o draw_arrow_head(lfx, lfy, ltx, lty, color, head_size)],
         x |-> min_x,
         y |-> min_y,
         line |-> s]

\* lines 260-307, on the shortened and offset segment s
render_arrow(s, color, dashed) ==
    LET min_x == Min(s[1], s[3]) - padding
        min_y == Min(s[2], s[4]) - padding
        img_width  == Max(bbox_extent(s[1], s[3]), min_size)
        img_height == Max(bbox_extent(s[2], s[4]), min_size)
        lfx == s[1] - min_x
        lfy == s[2] - min_y
        ltx == s[3] - min_x
        lty == s[4] - min_y
    IN  [image |-> [width |-> img_width, height |-> img_height,
                    ops |-> draw_stroke(lfx, lfy, ltx, lty, color, dashed)
                            \o draw_arrow_head(lfx, lfy, ltx, lty, color, head_size)],
         x |-> min_x + img_width \div 2,
         y |-> min_y + img_height \div 2,
         line |-> s]

\* ImageComposer._create_arrow_image(from_x, from_y, to_x, to_y, color,
\* dashed, offset_perpendicular, length_ratio = rn / rd).  The field `line`
\* of the result is the segment after shortening and offset, in ground
\* coordinates; the code does not return it.
create_arrow_image(s, color, dashed, off, rn, rd) ==
    render_arrow(ApplyOffset(Shorten(s, rn, rd), off), color, dashed)

(***************************************************************************)
(* ImageComposer.__init__ and ImageComposer._create_labeled_player.        *)
(***************************************************************************)
\* line 35: the side of the resized person image
person_size(W, H) == Max(min_person_size, Min(W, H) \div person_divisor)

\* the canvas never wider than the figure
create_labeled_player_narrow(label, person_w, person_h) ==
    [width |-> person_w, height |-> person_h + label_height,
     person_x |-> 0, person_y |-> label_height, label |-> label]

\* the labelled player image: its canvas and where the figure is pasted
create_labeled_player(label, person_w, person_h) ==
    LET canvas_width  == Max(person_w,
                             Len(label) * label_char_width + label_padding * 2)
        canvas_height == person_h + label_height
    IN  [width |-> canvas_width, height |-> canvas_height,
         person_x |-> (canvas_width - person_w) \div 2,
         person_y |-> label_height,
         label |-> label]

(***************************************************************************)
(* The image objects of an ImageComposer.  An image is its size and the    *)
(* drawing calls made on it; heap[ref] is the image the reference ref      *)
(* names, so that two names of one object are told from two objects.       *)
(***************************************************************************)
AssetFiles == {"ground.png", "person.png"}

\* only ground.png is looked for
ground_exists(present) == "ground.png" \in present

\* lines 25-28: both files exist
assets_exist(present) == "ground.png" \in present /\ "person.png" \in present

\* self.ground_image and self.person_image
GroundRef == 1

PersonRef == 2

\* an image nothing was drawn on
new_image(w, h) == [width |-> w, height |-> h, ops |-> << >>]

\* lines 31-38: the ground as loaded, the person image resized to a square
LoadedAssets(W, H) ==
    << new_image(W, H), new_image(person_size(W, H), person_size(W, H)) >>

\* ImageComposer.__init__ has returned
ComposerConstructed ==
    /\ assets = AssetFiles
    /\ heap = LoadedAssets(ground_size[1], ground_size[2])
    /\ handed = << >>

\* the same object under a second name
image_alias(h, ref) == [heap |-> h, ref |-> ref]

\* Image.copy(): a new object with the contents of heap[ref]
image_copy(h, ref) == [heap |-> Append(h, h[ref]), ref |-> Len(h) + 1]

\* drawing calls made on the object ref
image_draw(h, ref, ops) == [h EXCEPT ![ref].ops = @ \o ops]

(***************************************************************************)
(* ImageComposer.compose_step_diagram_separate.                            *)
(* A dict is a function on the keys it holds; a list is a sequence.        *)
(***************************************************************************)
\* length_ratio is never passed: the default 0.75
DefaultRatio == <<3, 4>>

\* the product rounded to the nearest integer, halves up
to_pixel_rounded(pos, key, dim) ==
    LET c == Get(pos, key, Half) IN int(2 * c[1] * dim + c[2], 2 * c[2])

\* int(pos.get(key, 0.5) * dim)
to_pixel(pos, key, dim) ==
    LET c == Get(pos, key, Half) IN int(c[1] * dim, c[2])

\* one entry of arrow_data.  called_with (the endpoints handed to
\* _create_arrow_image) and line (the segment drawn, in ground coordinates)
\* are not fields of the code's dict: they record the call.
arrow_entry(s, style, type) ==
    LET a == create_arrow_image(s, style.color, style.dashed, style.off,
                                DefaultRatio[1], DefaultRatio[2])
    IN  [image |-> a.image, x |-> a.x, y |-> a.y, type |-> type,
         called_with |-> s, line |-> a.line]

\* lines 139-158: one ball movement
ball_arrow(movement, W, H) ==
    LET from_pos == Get(movement, "from", EmptyDict)
        to_pos   == Get(movement, "to", EmptyDict)
    IN  arrow_entry(<< to_pixel(from_pos, "x", W), to_pixel(from_pos, "y", H),
                       to_pixel(to_pos, "x", W),   to_pixel(to_pos, "y", H) >>,
                    [color |-> "orange", dashed |-> TRUE, off |-> BallOffset],
                    "ball")

\* lines 139-158: every ball movement, in order
ball_arrows(movements, W, H) ==
    [i \in 1..Len(movements) |-> ball_arrow(movements[i], W, H)]

\* p["id"] and p["position"] of line 162 raise KeyError on a missing key
HasIdAndPosition(p) == "id" \in DOMAIN p /\ "position" \in DOMAIN p

\* line 162: {p["id"]: p["position"] for p in players}; a later player
\* with the same id replaces an earlier one
player_positions(players) ==
    [k \in {players[i]["id"] : i \in 1..Len(players)} |->
        players[CHOOSE i \in 1..Len(players) :
                    /\ players[i]["id"] = k
                    /\ \A j \in (i + 1)..Len(players) : players[j]["id"] # k
               ]["position"]]

\* the player arrow offset to the ball arrows' side
player_arrow_ball_side(movement, from_pos, W, H) ==
    LET to_pos == Get(movement, "to_position", EmptyDict)
    IN  arrow_entry(<< to_pixel(from_pos, "x", W), to_pixel(from_pos, "y", H),
                       to_pixel(to_pos, "x", W),   to_pixel(to_pos, "y", H) >>,
                    [color |-> "blue", dashed |-> FALSE, off |-> BallOffset],
                    "player")

\* lines 169-185: one player movement from a known player
player_arrow(movement, from_pos, W, H) ==
    LET to_pos == Get(movement, "to_position", EmptyDict)
    IN  arrow_entry(<< to_pixel(from_pos, "x", W), to_pixel(from_pos, "y", H),
                       to_pixel(to_pos, "x", W),   to_pixel(to_pos, "y", H) >>,
                    [color |-> "blue", dashed |-> FALSE, off |-> PlayerOffset],
                    "player")

\* an arrow for every movement, an unknown player standing at the default
player_arrows_unfiltered(movements, positions, W, H) ==
    [i \in 1..Len(movements) |->
        player_arrow(movements[i],
                     Get(positions, Get(movements[i], "from_player", ""), EmptyDict),
                     W, H)]

\* the arrows of the known players' movements, last movement first
player_arrows_reversed(movements, positions, W, H) ==
    LET known(m) == Get(m, "from_player", "") \in DOMAIN positions
        kept     == SelectSeq(movements, known)
    IN  [i \in 1..Len(kept) |->
            player_arrow(kept[Len(kept) + 1 - i],
                         positions[Get(kept[Len(kept) + 1 - i], "from_player", "")], W, H)]

\* lines 164-185: the movements whose from_player is a key of
\* player_positions, in order
player_arrows(movements, positions, W, H) ==
    LET known(m) == Get(m, "from_player", "") \in DOMAIN positions
        kept     == SelectSeq(movements, known)
    IN  [i \in 1..Len(kept) |->
            player_arrow(kept[i], positions[Get(kept[i], "from_player", "")], W, H)]

\* lines 190-205: one entry of player_data
player_entry(player, W, H) ==
    LET pos   == Get(player, "position", EmptyDict)
        label == Get(player, "id", "")
    IN  [image |-> create_labeled_player(label, person_size(W, H), person_size(W, H)),
         x |-> to_pixel(pos, "x", W),
         y |-> to_pixel(pos, "y", H),
         label |-> label]

\* compose_step_diagram_separate(step) on a W x H ground: the dict it
\* returns, or the exception it ends with
compose_step_diagram_separate(st, W, H) ==
    LET balls     == Get(st, "ball_movements", << >>)
        movements == Get(st, "movements", << >>)
        players   == Get(st, "players", << >>)
    IN  IF \E i \in 1..Len(players) : ~HasIdAndPosition(players[i])
        THEN [status |-> "KeyError"]
        ELSE [status |-> "ok",
              ground |-> [width |-> W, height |-> H, ops |-> << >>],
              players |-> [i \in 1..Len(players) |-> player_entry(players[i], W, H)],
              arrows |-> ball_arrows(balls, W, H)
                         \o player_arrows(movements, player_positions(players), W, H),
              ground_size |-> <<W, H>>]

(***************************************************************************)
(* The steps compose_step_diagram_separate is called on.                   *)
(***************************************************************************)
RECURSIVE Pow2(_)
Pow2(n) == IF n = 0 THEN 1 ELSE 2 * Pow2(n - 1)

RelDen == Pow2(RelBits)

RelValues == { <<n, RelDen>> : n \in 0..RelDen }

FullPositions == { [x |-> a, y |-> b] : a \in RelValues, b \in RelValues }

\* position dicts lacking x, y or both
PartialPositions ==
    {EmptyDict} \cup { [x |-> a] : a \in RelValues } \cup { [y |-> b] : b \in RelValues }

Positions == FullPositions \cup PartialPositions

\* one player at p, one movement of that player to q and one ball movement
\* from p to q: p any position, q the same position, a fixed one or an empty
\* dict
OneOfEachSteps ==
    { [players |-> << [id |-> "A", position |-> pq[1]] >>,
       movements |-> << [from_player |-> "A", to_position |-> pq[2]] >>,
       ball_movements |-> << [from |-> pq[1], to |-> pq[2]] >>] :
         pq \in UNION { { <<p, p>>, <<p, [x |-> <<3, 4>>, y |-> <<1, 4>>]>>, <<p, EmptyDict>> } :
                          p \in Positions } }

SmallGrounds == (1..MaxSmallGround) \X (1..MaxSmallGround)

SampleGround == <<40, 24>>

P1 == [x |-> <<1, 4>>, y |-> <<1, 2>>]

P2 == [x |-> <<3, 4>>, y |-> <<1, 4>>]

PlayerSamples ==
    { [id |-> "A", position |-> P1], [id |-> "B", position |-> P2],
      [id |-> "A", position |-> P2], [position |-> P1], [id |-> "A"] }

MovementSamples ==
    { [from_player |-> "A", to_position |-> P2], [from_player |-> "Z", to_position |-> P2],
      [to_position |-> P1], [from_player |-> "B"] }

BallSamples == { [from |-> P1, to |-> P2], [to |-> [x |-> <<1, 4>>]], EmptyDict }

SeqsUpTo(S, n) == UNION { [1..k -> S] : k \in 0..n }

\* the key "players" absent, or a list of up to MaxPlayers players
PlayerLists == {EmptyDict} \cup { [players |-> s] : s \in SeqsUpTo(PlayerSamples, MaxPlayers) }

\* the key "movements" absent, or a list of up to MaxMovements movements
MovementLists ==
    {EmptyDict} \cup { [movements |-> s] : s \in SeqsUpTo(MovementSamples, MaxMovements) }

\* the key "ball_movements" absent, or a list of up to MaxBalls ball movements
BallLists ==
    {EmptyDict} \cup { [ball_movements |-> s] : s \in SeqsUpTo(BallSamples, MaxBalls) }

\* steps with every players list and every movements list, without a ball
\* movement or with one; and steps with every ball_movements list, without a
\* player or with one
SampledSteps ==
    { ps @@ ms @@ bs :
        ps \in PlayerLists, ms \in MovementLists,
        bs \in {EmptyDict, [ball_movements |-> << [from |-> P1, to |-> P2] >>]} }
    \cup { ps @@ bs :
             ps \in {EmptyDict, [players |-> << [id |-> "A", position |-> P1] >>]},
             bs \in BallLists }

\* the end-to-end scenario: a 1000x600 ground, a player at (0.5, 0.5) moving
\* to (0.7, 0.5) and a ball going from (0.5, 0.5) to (0.3, 0.5)
ScenarioGround == <<1000, 600>>

ScenarioStep ==
    [players |-> << [id |-> "A", position |-> [x |-> <<5, 10>>, y |-> <<5, 10>>]] >>,
     movements |-> << [from_player |-> "A",
                       to_position |-> [x |-> <<7, 10>>, y |-> <<5, 10>>]] >>,
     ball_movements |-> << [from |-> [x |-> <<5, 10>>, y |-> <<5, 10>>],
                            to   |-> [x |-> <<3, 10>>, y |-> <<5, 10>>]] >>]

\* a ball movement from p to P2 and a player standing at P2 who moves to p
CrossingSteps ==
    { [players |-> << [id |-> "A", position |-> P2] >>,
       movements |-> << [from_player |-> "A", to_position |-> p] >>,
       ball_movements |-> << [from |-> p, to |-> P2] >>] : p \in FullPositions }

ComposeInputs ==
    { <<g, s>> : g \in SmallGrounds \cup {SampleGround}, s \in OneOfEachSteps }
    \cup { <<SampleGround, s>> : s \in CrossingSteps }
    \cup { <<SampleGround, s>> : s \in SampledSteps }
    \cup { <<ScenarioGround, ScenarioStep>> }

InitCompose ==
    /\ pc = "compose_call"
    /\ \E in \in ComposeInputs : ground_size = in[1] /\ step = in[2]
    /\ seg = None
    /\ arrow = None
    /\ cur = None
    /\ napplied = 0
    /\ bundle = None
    /\ display = None
    /\ AgentConstructed
    /\ ComposerConstructed
    /\ NoRequestInFlight

ComposeStepDiagramSeparate ==
    /\ pc = "compose_call"
    /\ bundle' = compose_step_diagram_separate(step, ground_size[1], ground_size[2])
    /\ pc' = IF bundle'.status = "ok" THEN "compose_returned" ELSE "compose_raised"
    /\ UNCHANGED <<ground_size, seg, arrow, cur, napplied, step, display, agentVars, assetVars, flightVars>>

NextCompose == ComposeStepDiagramSeparate

SpecCompose == InitCompose /\ [][NextCompose]_vars

(***************************************************************************)
(* Calls of _create_arrow_image on arbitrary integer endpoints.            *)
(***************************************************************************)
Coords == 0..MaxCoord

Segments == Coords \X Coords \X Coords \X Coords

\* the two ways compose_step_diagram_separate calls it (lines 149-152, 176-179)
BallStyle == [color |-> "orange", dashed |-> TRUE, off |-> BallOffset]

PlayerStyle == [color |-> "blue", dashed |-> FALSE, off |-> PlayerOffset]

Styles == {BallStyle, PlayerStyle}

\* length_ratio: the default 0.75, and 1.0 (no shortening)
Ratios == { <<3, 4>>, <<1, 1>> }

\* length_ratio values the shortening step is re-applied with
ShortenRatios == { <<0, 1>>, <<1, 4>>, <<1, 2>>, <<3, 4>>, <<1, 1>> }

NoSegment == <<0, 0, 0, 0>>

InitArrow ==
    /\ pc = "arrow_call"
    /\ ground_size = <<0, 0>>
    /\ seg \in [s : Segments, style : Styles, ratio : Ratios]
    /\ arrow = None
    /\ cur = NoSegment
    /\ napplied = 0
    /\ step = EmptyDict
    /\ bundle = None
    /\ display = None
    /\ AgentConstructed
    /\ ComposerConstructed
    /\ NoRequestInFlight

CreateArrowImage ==
    /\ pc = "arrow_call"
    /\ arrow' = create_arrow_image(seg.s, seg.style.color, seg.style.dashed,
                                   seg.style.off, seg.ratio[1], seg.ratio[2])
    /\ pc' = "arrow_returned"
    /\ UNCHANGED <<ground_size, seg, cur, napplied, step, bundle, display, agentVars, assetVars, flightVars>>

NextArrow == CreateArrowImage

SpecArrow == InitArrow /\ [][NextArrow]_vars

(***************************************************************************)
(* The shortening step applied again and again to its own result.          *)
(***************************************************************************)
InitShorten ==
    /\ pc = "shorten"
    /\ ground_size = <<0, 0>>
    /\ seg \in [s : Segments, style : {PlayerStyle}, ratio : ShortenRatios]
    /\ arrow = None
    /\ cur = seg.s
    /\ napplied = 0
    /\ step = EmptyDict
    /\ bundle = None
    /\ display = None
    /\ AgentConstructed
    /\ ComposerConstructed
    /\ NoRequestInFlight

ShortenStep ==
    /\ pc = "shorten"
    /\ napplied < MaxReapply
    /\ cur' = Shorten(cur, seg.ratio[1], seg.ratio[2])
    /\ napplied' = napplied + 1
    /\ UNCHANGED <<pc, ground_size, seg, arrow, step, bundle, display, agentVars, assetVars, flightVars>>

NextShorten == ShortenStep

SpecShorten == InitShorten /\ [][NextShorten]_vars

(***************************************************************************)
(* ExcelGenerator._add_separate_images: the display size and the scale.    *)
(*                                                                         *)
(* aspect_ratio = ground_width / ground_height is a double.  When the      *)
(* quotient is not a double exactly, max_height * aspect_ratio and         *)
(* max_width / aspect_ratio can fall just below an integer they equal in   *)
(* exact arithmetic, and int() then gives one less (a 58x400 ground gives  *)
(* int(200 * 0.145) = 28).  Which of the two happens is decided by the     *)
(* rounding of the double, which is not modelled: both are outcomes.       *)
(***************************************************************************)
RECURSIVE GCD(_, _)
GCD(a, b) == IF b = 0 THEN a ELSE GCD(b, a % b)

RECURSIVE IsPow2(_)
IsPow2(n) == n = 1 \/ (n > 1 /\ n % 2 = 0 /\ IsPow2(n \div 2))

\* whether W / H is a double exactly
ExactRatio(W, H) == IsPow2(H \div GCD(W, H))

\* the values int() can give for the quotient n / d computed through
\* aspect_ratio
IntQuotients(n, d, exact) ==
    IF n % d = 0 /\ ~exact THEN {n \div d - 1, n \div d} ELSE {n \div d}

\* lines 203-208: <<display_width, display_height>> after the width test
WidthFitted(W, H) ==
    IF W > max_width
    THEN { <<max_width, dh>> : dh \in IntQuotients(max_width * H, W, ExactRatio(W, H)) }
    ELSE { <<W, H>> }

\* the height clipped, the width left as the width test gave it
HeightFittedKeepsWidth(d, W, H) ==
    IF d[2] > max_height THEN { <<d[1], max_height>> } ELSE { d }

\* lines 210-212: the height test, on what the width test left
HeightFitted(d, W, H) ==
    IF d[2] > max_height
    THEN { <<dw, max_height>> : dw \in IntQuotients(max_height * W, H, ExactRatio(W, H)) }
    ELSE { d }

\* lines 198-214: the display sizes and the scale = display_width /
\* ground_width, as numerator and denominator
display_sizes(W, H) ==
    { [display_width |-> d[1], display_height |-> d[2], scale |-> <<d[1], W>>] :
        d \in UNION { HeightFitted(f, W, H) : f \in WidthFitted(W, H) } }

ScaledGrounds == (1..MaxGroundW) \X (1..MaxGroundH)

\* a ground whose aspect ratio 58 / 400 = 0.145 is not a double:
\* 200 * 0.145 is computed as 28.999999999999996
TallGround == <<58, 400>>

InitScale ==
    /\ pc = "scale_call"
    /\ ground_size \in ScaledGrounds \cup {ScenarioGround, TallGround}
    /\ seg = None
    /\ arrow = None
    /\ cur = None
    /\ napplied = 0
    /\ step = EmptyDict
    /\ bundle = None
    /\ display = None
    /\ AgentConstructed
    /\ ComposerConstructed
    /\ NoRequestInFlight

AddSeparateImagesScale ==
    /\ pc = "scale_call"
    /\ display' \in display_sizes(ground_size[1], ground_size[2])
    /\ pc' = "scale_done"
    /\ UNCHANGED <<ground_size, seg, arrow, cur, napplied, step, bundle, agentVars, assetVars, flightVars>>

NextScale == AddSeparateImagesScale

SpecScale == InitScale /\ [][NextScale]_vars

(***************************************************************************)
(* ExcelGenerator._add_separate_images: the images added to the sheet.     *)
(*                                                                         *)
(* scale = display_width / ground_width is a double as well: a product     *)
(* v * scale that is an integer in exact arithmetic can come out just      *)
(* below it, unless scale is a double exactly.                             *)
(***************************************************************************)
\* the values of int(v * scale), scale = dw / W
scaled_int(v, dw, W) ==
    IF v = 0 THEN {0}
    ELSE IF v > 0 THEN IntQuotients(v * dw, W, ExactRatio(dw, W))
    ELSE { -q : q \in IntQuotients((-v) * dw, W, ExactRatio(dw, W)) }

\* the overlay is put with its top-left corner on the scaled anchor
corner_offset(at, size) == at

\* lines 250-251, 287-288: int(x * scale) - display_size // 2
centred_offset(at, size) == at - size \div 2

\* lines 243-262 and 280-299: the displayed size of one overlay and its
\* offset from the top-left corner of cell B{row}
overlay_placements(ov, dw, W) ==
    { [width |-> w, height |-> h,
       offset_x |-> centred_offset(x, w), offset_y |-> centred_offset(y, h)] :
        w \in scaled_int(ov.image.width, dw, W),
        h \in scaled_int(ov.image.height, dw, W),
        x \in scaled_int(ov.x, dw, W),
        y \in scaled_int(ov.y, dw, W) }

\* one image added to the worksheet: the temp file it is read from, the
\* image saved there, the anchor row and the offsets from the cell's
\* corner, and the display size.  called (the generate call under way)
\* is not a field of the code's objects: it records the call.
sheet_image(path, img, row, pl, called) ==
    [path |-> path, image |-> img, marker_row |-> row - 1,
     colOff |-> pl.offset_x, rowOff |-> pl.offset_y,
     width |-> pl.width, height |-> pl.height, called |-> called]

RECURSIVE SeqProduct(_)
\* the sequences that take their i-th element from the i-th set
SeqProduct(sets) ==
    IF sets = << >> THEN { << >> }
    ELSE { << h >> \o rest : h \in Head(sets), rest \in SeqProduct(Tail(sets)) }

\* the step index left out of the file names
TempNamesPerKind(i, b) ==
    << <<"step", 0, "ground", 0>> >>
    \o [p \in 1..Len(b.players) |-> <<"step", 0, "player", p - 1>>]
    \o [a \in 1..Len(b.arrows) |-> <<"step", 0, "arrow", a - 1>>]

\* lines 217, 238-240, 275-277: the names of one step's temp files, in
\* the order they are written
TempNames(i, b) ==
    << <<"step", i, "ground", 0>> >>
    \o [p \in 1..Len(b.players) |-> <<"step", i, "player", p - 1>>]
    \o [a \in 1..Len(b.arrows) |-> <<"step", i, "arrow", a - 1>>]

\* _add_separate_images(ws, row, step_idx, step_data): the images it adds,
\* in order, for each outcome of the display size and of the int() calls
add_separate_images(row, step_idx, step_data, called) ==
    LET W  == step_data.ground_size[1]
        H  == step_data.ground_size[2]
        np == Len(step_data.players)
        na == Len(step_data.arrows)
        names == TempNames(step_idx, step_data)
        overlays(d) ==
            [p \in 1..np |->
                { sheet_image(names[1 + p], step_data.players[p].image, row, pl, called) :
                    pl \in overlay_placements(step_data.players[p], d.display_width, W) }]
            \o [a \in 1..na |->
                { sheet_image(names[1 + np + a], step_data.arrows[a].image, row, pl, called) :
                    pl \in overlay_placements(step_data.arrows[a], d.display_width, W) }]
        ground(d) ==
            sheet_image(names[1], step_data.ground, row,
                        [width |-> d.display_width, height |-> d.display_height,
                         offset_x |-> 0, offset_y |-> 0], called)
    IN  UNION { { << ground(d) >> \o rest : rest \in SeqProduct(overlays(d)) } :
                  d \in display_sizes(W, H) }

\* current_row never advanced: every step on the first step's row
StepRowFixed(i) == 1 + 1 + 2 + 1

\* lines 55-82 and 143: current_row when step i of the plan is written:
\* the title row, the description row and a blank one, the header row
StepRow(i) == 1 + 1 + 2 + 1 + i

(***************************************************************************)
(* PracticeMenuAgent.generate_practice_menu and generate_from_plan, with   *)
(* the temp files of the agent's ExcelGenerator.                           *)
(*                                                                         *)
(* A temp path is tempfile.gettempdir() joined with the file name; the     *)
(* name step_{i}_ground.png is <<"step", i, "ground", 0>>, and so on.      *)
(* _save_temp_image (img.save) and workbook.save do file I/O and can       *)
(* raise; a save that raises is taken to leave no file behind.             *)
(***************************************************************************)
Range(s) == { s[i] : i \in 1..Len(s) }

\* cleanup removes every recorded file but forgets to clear the list
cleanup_files_kept(files, dir) == dir

\* ExcelGenerator.cleanup, lines 340-344: the directory after os.remove of
\* every recorded path
cleanup_files(files, dir) == dir \ Range(files)

PlanSteps ==
    { EmptyDict,
      [players |-> << [id |-> "A", position |-> P1] >>,
       ball_movements |-> << [from |-> P1, to |-> P2] >>],
      [players |-> << [position |-> P1] >>] }

\* practice plans: with up to MaxSteps steps, or without the key "steps"
Plans == {EmptyDict} \cup { [steps |-> s] : s \in SeqsUpTo(PlanSteps, MaxSteps) }

\* the plans of the calls that follow the agent's first
RepeatPlans == {EmptyDict} \cup { [steps |-> s] : s \in SeqsUpTo(PlanSteps, MaxRepeatSteps) }

\* the plans a call is started on, given the calls made before it
PlansAfter(made) == IF made = << >> THEN Plans ELSE RepeatPlans

Steps == Get(practice_plan, "steps", << >>)

CallEnded == pc \in {"returned", "raised"}

Init ==
    /\ pc = "agent_ready"
    /\ ground_size = SampleGround
    /\ seg = None
    /\ arrow = None
    /\ cur = None
    /\ napplied = 0
    /\ step = EmptyDict
    /\ bundle = None
    /\ display = None
    /\ AgentConstructed
    /\ ComposerConstructed
    /\ NoRequestInFlight

composerVars == <<ground_size, seg, arrow, cur, napplied, step, bundle, display>>

\* a generate call starts on a plan: agent.py lines 81-82 (46-47)
StartCall(method, plan) ==
    /\ pc \in {"agent_ready", "returned", "raised"}
    /\ Len(calls) < MaxCalls
    /\ calls' = Append(calls, method)
    /\ practice_plan' = plan
    /\ step_images' = << >>
    /\ idx' = 0
    /\ written' = {}
    /\ pc' = "composing"
    /\ UNCHANGED <<temp_files, tmpdir, workbook, saved, composerVars, assetVars, flightVars>>

GenerateFromPlan == \E plan \in PlansAfter(calls) : StartCall("generate_from_plan", plan)

\* generate_practice_menu: the plan is what the LLM client returned
GeneratePracticeMenu ==
    \E plan \in PlansAfter(calls) : StartCall("generate_practice_menu", plan)

\* generate_practice_menu, line 41: the LLM client raises
GeneratePracticeMenuLLMRaises ==
    /\ pc \in {"agent_ready", "returned", "raised"}
    /\ Len(calls) < MaxCalls
    /\ calls' = Append(calls, "generate_practice_menu")
    /\ written' = {}
    /\ pc' = "raised"
    /\ UNCHANGED <<practice_plan, step_images, idx, temp_files, tmpdir, workbook,
                   saved, composerVars, assetVars, flightVars>>

\* agent.py lines 84-86 (49-52): one turn of the composing loop
ComposeStep ==
    /\ pc = "composing"
    /\ idx < Len(Steps)
    /\ LET b == compose_step_diagram_separate(Steps[idx + 1],
                                              ground_size[1], ground_size[2])
       IN  IF b.status = "ok"
           THEN /\ step_images' = Append(step_images, b)
                /\ idx' = idx + 1
                /\ pc' = pc
           ELSE /\ pc' = "raised"
                /\ UNCHANGED <<step_images, idx>>
    /\ UNCHANGED <<practice_plan, temp_files, tmpdir, workbook, saved, written,
                   calls, composerVars, assetVars, flightVars>>

\* agent.py line 89 (56): create_practice_sheet is entered
CreatePracticeSheet ==
    /\ pc = "composing"
    /\ idx = Len(Steps)
    /\ pc' = "sheet"
    /\ idx' = 0
    /\ UNCHANGED <<practice_plan, step_images, temp_files, tmpdir, workbook,
                   saved, written, calls, composerVars, assetVars, flightVars>>

\* the temp paths of the first k images
Paths(images, k) == [j \in 1..k |-> images[j].path]

\* _save_temp_image and ws.add_image on the first k images: written,
\* recorded and embedded
SaveTempImages(images, k) ==
    /\ tmpdir' = tmpdir \cup Range(Paths(images, k))
    /\ temp_files' = temp_files \o Paths(images, k)
    /\ workbook' = workbook \o SubSeq(images, 1, k)
    /\ written' = written \cup Range(Paths(images, k))

\* excel_generator.py lines 86-143: one step's row, _add_separate_images
AddSeparateImages ==
    /\ pc = "sheet"
    /\ idx < Len(Steps)
    /\ \E images \in add_separate_images(StepRow(idx), idx, step_images[idx + 1],
                                         Len(calls)) :
           SaveTempImages(images, Len(images))
    /\ idx' = idx + 1
    /\ UNCHANGED <<pc, practice_plan, step_images, saved, calls, composerVars, assetVars, flightVars>>

\* the same, one of its _save_temp_image calls raising
AddSeparateImagesRaises ==
    /\ pc = "sheet"
    /\ idx < Len(Steps)
    /\ \E images \in add_separate_images(StepRow(idx), idx, step_images[idx + 1],
                                         Len(calls)) :
           \E k \in 0..(Len(images) - 1) : SaveTempImages(images, k)
    /\ pc' = "raised"
    /\ UNCHANGED <<idx, practice_plan, step_images, saved, calls, composerVars, assetVars, flightVars>>

\* agent.py line 93 (60): ExcelGenerator.save
Save ==
    /\ pc = "sheet"
    /\ idx = Len(Steps)
    /\ saved' = Append(saved, workbook)
    /\ pc' = "cleanup"
    /\ UNCHANGED <<practice_plan, step_images, idx, temp_files, tmpdir, workbook,
                   written, calls, composerVars, assetVars, flightVars>>

\* workbook.save raises
SaveRaises ==
    /\ pc = "sheet"
    /\ idx = Len(Steps)
    /\ pc' = "raised"
    /\ UNCHANGED <<practice_plan, step_images, idx, temp_files, tmpdir, workbook,
                   saved, written, calls, composerVars, assetVars, flightVars>>

\* agent.py line 96 (64): ExcelGenerator.cleanup, then the call returns
Cleanup ==
    /\ pc = "cleanup"
    /\ tmpdir' = cleanup_files(temp_files, tmpdir)
    /\ temp_files' = << >>
    /\ pc' = "returned"
    /\ UNCHANGED <<practice_plan, step_images, idx, workbook, saved, written,
                   calls, composerVars, assetVars, flightVars>>

\* ExcelGenerator.__del__: the agent is dropped and its generator collected
Del ==
    /\ pc \in {"agent_ready", "returned", "raised"}
    /\ tmpdir' = cleanup_files(temp_files, tmpdir)
    /\ temp_files' = << >>
    /\ pc' = "finalized"
    /\ UNCHANGED <<practice_plan, step_images, idx, workbook, saved, written,
                   calls, composerVars, assetVars, flightVars>>

Next ==
    \/ GenerateFromPlan
    \/ GeneratePracticeMenu
    \/ GeneratePracticeMenuLLMRaises
    \/ ComposeStep
    \/ CreatePracticeSheet
    \/ AddSeparateImages
    \/ AddSeparateImagesRaises
    \/ Save
    \/ SaveRaises
    \/ Cleanup
    \/ Del

Spec == Init /\ [][Next]_vars

(***************************************************************************)
(* _add_separate_images on the bundle of one step, for grounds that fit    *)
(* the display budget and grounds that do not.                             *)
(***************************************************************************)
\* a narrow upright ground: display_width = int(200 * 0.107) = 21
NarrowGround == <<107, 1000>>

PlaceGrounds ==
    { SampleGround, ScenarioGround, NarrowGround,
      <<max_width, max_height>>, <<2 * max_width, 2 * max_height>>,
      <<max_width + 3, max_height + 3>>, <<1, 201>> }

\* one player, a movement of that player and a ball movement to the same
\* place, the player anywhere on the ground
PlaceSteps ==
    { [players |-> << [id |-> "A", position |-> p] >>,
       movements |-> << [from_player |-> "A", to_position |-> P2] >>,
       ball_movements |-> << [from |-> p, to |-> P2] >>] : p \in FullPositions }

\* the bundle is what compose_step_diagram_separate returned for the step
InitPlace ==
    /\ pc = "place_call"
    /\ ground_size \in PlaceGrounds
    /\ step \in PlaceSteps
    /\ bundle = compose_step_diagram_separate(step, ground_size[1], ground_size[2])
    /\ seg = None
    /\ arrow = None
    /\ cur = None
    /\ napplied = 0
    /\ display = None
    /\ AgentConstructed
    /\ ComposerConstructed
    /\ NoRequestInFlight

\* _add_separate_images(ws, row, 0, bundle) for the first step of a plan
AddSeparateImagesPlace ==
    /\ pc = "place_call"
    /\ \E images \in add_separate_images(StepRow(0), 0, bundle, 0) :
           SaveTempImages(images, Len(images))
    /\ pc' = "placed"
    /\ UNCHANGED <<practice_plan, step_images, idx, saved, calls, composerVars, assetVars, flightVars>>

NextPlace == AddSeparateImagesPlace

SpecPlace == InitPlace /\ [][NextPlace]_vars

(***************************************************************************)
(* Calls of _create_labeled_player on composers with grounds of several    *)
(* sizes, which give person images of several sizes.                       *)
(***************************************************************************)
\* labels of 0 to 11 characters
LabelSamples ==
    { "", "A", "GK", "FW1", "DF10", "Coach", "Keeper", "Player1", "Player 10",
      "goalkeeper2" }

\* grounds giving person images 30, 31, 40, 48, 66, 72 and 100 pixels wide
LabelGrounds ==
    { SampleGround, ScenarioGround, <<700, 465>>, <<720, 1280>>, <<1500, 1000>>,
      <<1920, 1080>>, <<1500, 1500>>, <<max_width, max_height>> }

InitLabel ==
    /\ pc = "label_call"
    /\ ground_size \in LabelGrounds
    /\ seg \in [label : LabelSamples]
    /\ arrow = None
    /\ cur = None
    /\ napplied = 0
    /\ step = EmptyDict
    /\ bundle = None
    /\ display = None
    /\ AgentConstructed
    /\ ComposerConstructed
    /\ NoRequestInFlight

\* _create_labeled_player(label): line 318 reads self.person_image.size
CreateLabeledPlayer ==
    /\ pc = "label_call"
    /\ arrow' = create_labeled_player(seg.label, heap[PersonRef].width,
                                      heap[PersonRef].height)
    /\ pc' = "label_returned"
    /\ UNCHANGED <<ground_size, seg, cur, napplied, step, bundle, display,
                   agentVars, assetVars, flightVars>>

NextLabel == CreateLabeledPlayer

SpecLabel == InitLabel /\ [][NextLabel]_vars

(***************************************************************************)
(* Two requests in flight at once, each with a PracticeMenuAgent and an    *)
(* ExcelGenerator of its own (api.py line 82, main.py), in processes that  *)
(* share tempfile.gettempdir().  Each request is followed from             *)
(* create_practice_sheet on; a step's _add_separate_images is one action.  *)
(* workbook.save reads every embedded image from its path, so it raises     *)
(* when one is gone and embeds whatever the file holds otherwise.          *)
(***************************************************************************)
Requests == {"request_a", "request_b"}

\* the bundles of the plans in flight: the plans whose steps all compose
InFlightBundles ==
    { [i \in 1..Len(Get(plan, "steps", << >>)) |->
          compose_step_diagram_separate(plan["steps"][i],
                                        SampleGround[1], SampleGround[2])] :
        plan \in { q \in RepeatPlans :
                     \A i \in 1..Len(Get(q, "steps", << >>)) :
                         compose_step_diagram_separate(
                             q["steps"][i], SampleGround[1], SampleGround[2]
                         ).status = "ok" } }

IdleGenerator ==
    [pc |-> "ready", step_images |-> << >>, idx |-> 0, temp_files |-> << >>,
     workbook |-> << >>, embedded |-> << >>]

InitInFlight ==
    /\ pc = "in_flight"
    /\ ground_size = SampleGround
    /\ seg = None
    /\ arrow = None
    /\ cur = None
    /\ napplied = 0
    /\ step = EmptyDict
    /\ bundle = None
    /\ display = None
    /\ AgentConstructed
    /\ assets = AssetFiles
    /\ heap = LoadedAssets(ground_size[1], ground_size[2])
    /\ handed = << >>
    /\ gens = [r \in Requests |-> IdleGenerator]
    /\ shared_tmp = << >>

restVars == <<pc, composerVars, agentVars, assetVars>>

\* img.save(temp_path) by r: the file is created or overwritten
files_written(dir, paths, r) ==
    [p \in DOMAIN dir \cup Range(paths) |-> IF p \in Range(paths) THEN r ELSE dir[p]]

\* os.remove of every path, whoever wrote the file
files_removed(dir, paths) == [p \in DOMAIN dir \ Range(paths) |-> dir[p]]

\* agent.py line 89 (56): the request's create_practice_sheet is entered
\* with the bundles of its plan
InFlightCreateSheet(r) ==
    /\ gens[r].pc = "ready"
    /\ \E bundles \in InFlightBundles :
           gens' = [gens EXCEPT ![r].pc = "sheet", ![r].step_images = bundles]
    /\ UNCHANGED <<shared_tmp, restVars>>

\* excel_generator.py line 101: _add_separate_images of one step
InFlightAddSeparateImages(r) ==
    /\ gens[r].pc = "sheet"
    /\ gens[r].idx < Len(gens[r].step_images)
    /\ \E images \in add_separate_images(StepRow(gens[r].idx), gens[r].idx,
                                         gens[r].step_images[gens[r].idx + 1], 0) :
           /\ shared_tmp' = files_written(shared_tmp, Paths(images, Len(images)), r)
           /\ gens' = [gens EXCEPT ![r].idx = @ + 1,
                                   ![r].temp_files = @ \o Paths(images, Len(images)),
                                   ![r].workbook = @ \o images]
    /\ UNCHANGED restVars

\* every image file the workbook refers to is there to be read
Readable(r) ==
    \A i \in 1..Len(gens[r].workbook) : gens[r].workbook[i].path \in DOMAIN shared_tmp

\* excel_generator.py line 335: workbook.save embeds the files as they are
InFlightSave(r) ==
    /\ gens[r].pc = "sheet"
    /\ gens[r].idx = Len(gens[r].step_images)
    /\ Readable(r)
    /\ gens' = [gens EXCEPT
                  ![r].pc = "cleanup",
                  ![r].embedded = [i \in 1..Len(gens[r].workbook) |->
                                      shared_tmp[gens[r].workbook[i].path]]]
    /\ UNCHANGED <<shared_tmp, restVars>>

\* workbook.save raises FileNotFoundError
InFlightSaveRaises(r) ==
    /\ gens[r].pc = "sheet"
    /\ gens[r].idx = Len(gens[r].step_images)
    /\ ~Readable(r)
    /\ gens' = [gens EXCEPT ![r].pc = "raised"]
    /\ UNCHANGED <<shared_tmp, restVars>>

\* agent.py line 96 (64): cleanup after save, and __del__ of the generator
\* of a request that raised
InFlightCleanup(r) ==
    /\ gens[r].pc \in {"cleanup", "raised"}
    /\ shared_tmp' = files_removed(shared_tmp, gens[r].temp_files)
    /\ gens' = [gens EXCEPT ![r].pc = IF @ = "cleanup" THEN "returned" ELSE "finalized",
                            ![r].temp_files = << >>]
    /\ UNCHANGED restVars

NextInFlight ==
    \E r \in Requests :
        \/ InFlightCreateSheet(r)
        \/ InFlightAddSeparateImages(r)
        \/ InFlightSave(r)
        \/ InFlightSaveRaises(r)
        \/ InFlightCleanup(r)

SpecInFlight == InitInFlight /\ [][NextInFlight]_vars

(***************************************************************************)
(* A request from the construction of its PracticeMenuAgent on             *)
(* (agent.py lines 21-23): LLMClient, ImageComposer, ExcelGenerator.       *)
(***************************************************************************)
\* nothing is constructed yet; the assets directory holds any of its files
InitConstruct ==
    /\ pc = "constructing"
    /\ ground_size = SampleGround
    /\ seg = None
    /\ arrow = None
    /\ cur = None
    /\ napplied = 0
    /\ step = EmptyDict
    /\ bundle = None
    /\ display = None
    /\ AgentConstructed
    /\ assets \in SUBSET AssetFiles
    /\ heap = << >>
    /\ handed = << >>
    /\ NoRequestInFlight

\* agent.py line 21: LLMClient raises ValueError (no API key, unknown
\* provider)
LLMClientInitRaises ==
    /\ pc = "constructing"
    /\ pc' = "ValueError"
    /\ UNCHANGED <<composerVars, agentVars, assetVars, flightVars>>

\* agent.py line 22, image_composer.py lines 25-28
ImageComposerInitRaises ==
    /\ pc = "constructing"
    /\ ~assets_exist(assets)
    /\ pc' = "FileNotFoundError"
    /\ UNCHANGED <<composerVars, agentVars, assetVars, flightVars>>

\* agent.py lines 21-23 run to the end
AgentInit ==
    /\ pc = "constructing"
    /\ assets_exist(assets)
    /\ heap' = LoadedAssets(ground_size[1], ground_size[2])
    /\ pc' = "agent_ready"
    /\ UNCHANGED <<composerVars, agentVars, assets, handed, flightVars>>

NextConstruct ==
    \/ LLMClientInitRaises
    \/ ImageComposerInitRaises
    \/ AgentInit
    \/ Next

SpecConstruct == InitConstruct /\ [][NextConstruct]_vars

(***************************************************************************)
(* One ImageComposer and the images it hands out: the calls of             *)
(* compose_step_diagram_separate, compose_step_diagram, get_ground_image   *)
(* and get_player_image, and callers drawing on what they were handed.     *)
(***************************************************************************)
RECURSIVE Flatten(_)
Flatten(seqs) == IF seqs = << >> THEN << >> ELSE Head(seqs) \o Flatten(Tail(seqs))

\* ImageComposer.compose_step_diagram, lines 56-115: the drawing calls made
\* on the diagram, in order, or the KeyError of line 74 (the ball movements
\* are drawn before it)
compose_step_diagram(st, W, H) ==
    LET balls     == Get(st, "ball_movements", << >>)
        movements == Get(st, "movements", << >>)
        players   == Get(st, "players", << >>)
        person_w  == person_size(W, H)
        ends(from_pos, to_pos) ==
            << to_pixel(from_pos, "x", W), to_pixel(from_pos, "y", H),
               to_pixel(to_pos, "x", W), to_pixel(to_pos, "y", H) >>
        ball_ops(m) ==
            LET e == ends(Get(m, "from", EmptyDict), Get(m, "to", EmptyDict))
            IN  draw_dashed_line(e[1], e[2], e[3], e[4], "orange", 3, 10)
                \o draw_arrow_head(e[1], e[2], e[3], e[4], "orange", 10)
        positions == player_positions(players)
        move_ops(m) ==
            IF Get(m, "from_player", "") \in DOMAIN positions
            THEN LET e == ends(positions[Get(m, "from_player", "")],
                               Get(m, "to_position", EmptyDict))
                 IN  draw_line(e[1], e[2], e[3], e[4], "blue", 2)
                     \o draw_arrow_head(e[1], e[2], e[3], e[4], "blue", 8)
            ELSE << >>
        player_ops(pl) ==
            LET pos == Get(pl, "position", EmptyDict)
                x   == to_pixel(pos, "x", W) - person_w \div 2
                y   == to_pixel(pos, "y", H) - person_w \div 2
            IN  << [op |-> "paste", source |-> PersonRef, at |-> <<x, y>>],
                   [op |-> "rectangle", around |-> <<x + person_w \div 2, y - 15>>],
                   [op |-> "text", at |-> <<x + person_w \div 2, y - 15>>,
                    text |-> Get(pl, "id", "")] >>
        drawn_balls == Flatten([i \in 1..Len(balls) |-> ball_ops(balls[i])])
    IN  IF \E i \in 1..Len(players) : ~HasIdAndPosition(players[i])
        THEN [status |-> "KeyError", ops |-> drawn_balls]
        ELSE [status |-> "ok",
              ops |-> drawn_balls
                      \o Flatten([i \in 1..Len(movements) |-> move_ops(movements[i])])
                      \o Flatten([i \in 1..Len(players) |-> player_ops(players[i])])]

InitAssets ==
    /\ pc = "composer_ready"
    /\ ground_size = SampleGround
    /\ seg = None
    /\ arrow = None
    /\ cur = None
    /\ napplied = 0
    /\ step = EmptyDict
    /\ bundle = None
    /\ display = None
    /\ AgentConstructed
    /\ ComposerConstructed
    /\ NoRequestInFlight

\* the call returns the object ref to its caller
hand_out(method, ref) == Append(handed, [by |-> method, ref |-> ref])

\* compose_step_diagram_separate(st): line 131 copies the ground, nothing
\* is drawn on the copy, and the copy is dropped when line 162 raises
ComposeSeparateCall ==
    /\ pc = "composer_ready"
    /\ Len(heap) < 2 + MaxHanded
    /\ \E st \in PlanSteps :
        LET b == compose_step_diagram_separate(st, ground_size[1], ground_size[2])
            c == image_copy(heap, GroundRef)
        IN  /\ step' = st
            /\ bundle' = b
            /\ heap' = c.heap
            /\ handed' = IF b.status = "ok"
                         THEN hand_out("compose_step_diagram_separate", c.ref)
                         ELSE handed
    /\ UNCHANGED <<pc, ground_size, seg, arrow, cur, napplied, display, agentVars, assets, flightVars>>

\* compose_step_diagram(st): line 50 copies the ground and everything is
\* drawn on the copy
ComposeLegacyCall ==
    /\ pc = "composer_ready"
    /\ Len(heap) < 2 + MaxHanded
    /\ \E st \in PlanSteps :
        LET r == compose_step_diagram(st, ground_size[1], ground_size[2])
            c == image_copy(heap, GroundRef)
        IN  /\ step' = st
            /\ heap' = image_draw(c.heap, c.ref, r.ops)
            /\ handed' = IF r.status = "ok"
                         THEN hand_out("compose_step_diagram", c.ref)
                         ELSE handed
    /\ UNCHANGED <<pc, ground_size, seg, arrow, cur, napplied, bundle, display,
                   agentVars, assets, flightVars>>

\* get_ground_image(), line 353
GetGroundImage ==
    /\ pc = "composer_ready"
    /\ Len(heap) < 2 + MaxHanded
    /\ LET c == image_copy(heap, GroundRef)
       IN  heap' = c.heap /\ handed' = hand_out("get_ground_image", c.ref)
    /\ UNCHANGED <<pc, ground_size, seg, arrow, cur, napplied, step, bundle, display,
                   agentVars, assets, flightVars>>

\* get_player_image(), line 361
GetPlayerImage ==
    /\ pc = "composer_ready"
    /\ Len(heap) < 2 + MaxHanded
    /\ LET c == image_copy(heap, PersonRef)
       IN  heap' = c.heap /\ handed' = hand_out("get_player_image", c.ref)
    /\ UNCHANGED <<pc, ground_size, seg, arrow, cur, napplied, step, bundle, display,
                   agentVars, assets, flightVars>>

\* a caller draws, once, on an image it was handed
CallerDraws ==
    /\ pc = "composer_ready"
    /\ \E i \in 1..Len(handed) :
        /\ \A k \in 1..Len(heap[handed[i].ref].ops) :
               heap[handed[i].ref].ops[k].op # "caller"
        /\ heap' = image_draw(heap, handed[i].ref, << [op |-> "caller"] >>)
    /\ UNCHANGED <<pc, ground_size, seg, arrow, cur, napplied, step, bundle, display,
                   agentVars, assets, handed, flightVars>>

NextAssets ==
    \/ ComposeSeparateCall
    \/ ComposeLegacyCall
    \/ GetGroundImage
    \/ GetPlayerImage
    \/ CallerDraws

SpecAssets == InitAssets /\ [][NextAssets]_vars

(***************************************************************************)
(* Claims about _create_arrow_image.                                       *)
(***************************************************************************)
ArrowReturned == pc = "arrow_returned"

ZeroLengthCall == seg.s[1] = seg.s[3] /\ seg.s[2] = seg.s[4]

\* the segment the offset step of the call received
Shortened == Shorten(seg.s, seg.ratio[1], seg.ratio[2])

\* C4 as stated: for a ball movement whose origin equals its destination
\* the arrow image is exactly 40x40 (and nothing is divided by zero).
C4_ZeroLengthIsMinSize ==
    (ArrowReturned /\ seg.style = BallStyle /\ ZeroLengthCall)
        => (arrow.image.width = min_size /\ arrow.image.height = min_size)

\* C4 amended: for a ball movement whose origin equals its destination the
\* arrow image is 50x50, the padding of 25 on either side, which is no
\* smaller than the 40x40 minimum; the offset and the dashes, the two
\* places that divide by the length, are skipped: the segment is returned
\* where it was and no dash is drawn.
C4_ZeroLengthIsPaddingSize ==
    (ArrowReturned /\ seg.style = BallStyle /\ ZeroLengthCall)
        => /\ arrow.image.width = 2 * padding
           /\ arrow.image.height = 2 * padding
           /\ arrow.image.width >= min_size
           /\ arrow.image.height >= min_size
           /\ arrow.line = seg.s
           /\ \A i \in 1..Len(arrow.image.ops) : arrow.image.ops[i].op # "dashes"

C4_Witness ==
    /\ ArrowReturned
    /\ seg.style = BallStyle
    /\ seg.s = <<4, 7, 4, 7>>
    /\ arrow.image.width = 50

\* C5 as stated: for a zero-length segment, dashed or solid, nothing is
\* drawn: no line, no dash and no arrowhead polygon.
C5_ZeroLengthDrawsNothing ==
    (ArrowReturned /\ ZeroLengthCall) => arrow.image.ops = << >>

(***************************************************************************)
(* C8: the perpendicular-offset step.                                      *)
(***************************************************************************)
\* m * sqrt(L2) < n, decided on squares
SqrtLess(m, L2, n) ==
    IF m >= 0
    THEN n > 0 /\ m * m * L2 < n * n
    ELSE n >= 0 \/ m * m * L2 > n * n

\* n < m * sqrt(L2)
SqrtMore(m, L2, n) ==
    IF m >= 0
    THEN n < 0 \/ m * m * L2 > n * n
    ELSE n < 0 /\ m * m * L2 < n * n

\* |moved - exact| < 1, exact = num / sqrt(L2)
WithinOnePixel(moved, num, L2) ==
    SqrtLess(moved - 1, L2, num) /\ SqrtMore(moved + 1, L2, num)

OffsetFacts(pre, post, off) ==
    [ dfx |-> post[1] - pre[1], dfy |-> post[2] - pre[2],
      dtx |-> post[3] - pre[3], dty |-> post[4] - pre[4],
      dx  |-> pre[3] - pre[1],  dy  |-> pre[4] - pre[2] ]

SameVector(f) == f.dfx = f.dtx /\ f.dfy = f.dty

Perpendicular(f) == f.dfx * f.dx + f.dfy * f.dy = 0 /\ f.dtx * f.dx + f.dty * f.dy = 0

MagnitudeIs(f, m) == f.dfx * f.dfx + f.dfy * f.dfy = m * m
                     /\ f.dtx * f.dtx + f.dty * f.dty = m * m

\* C8 as stated: for every non-zero-length segment the offset step moves
\* both endpoints by the same vector, perpendicular to the segment and of
\* magnitude 6.
C8_OffsetIsRigidPerpendicular6 ==
    (ArrowReturned /\ Len2(Shortened) > 0)
        => LET f == OffsetFacts(Shortened, arrow.line, seg.style.off)
           IN  SameVector(f) /\ Perpendicular(f) /\ MagnitudeIs(f, BallOffset)

\* C8 amended: for a horizontal or vertical non-zero-length segment the
\* offset step moves both endpoints by the same vector, perpendicular to the
\* segment and of magnitude 6; for any other non-zero-length segment each
\* endpoint is moved to within one pixel, on each axis, of the exact
\* perpendicular displacement of 6, and both endpoints are moved by the same
\* vector when all four resulting coordinates are positive.
C8_OffsetWithinTruncation ==
    (ArrowReturned /\ Len2(Shortened) > 0)
        => LET f   == OffsetFacts(Shortened, arrow.line, seg.style.off)
               L2  == Len2(Shortened)
               off == seg.style.off
           IN  /\ (f.dx = 0 \/ f.dy = 0)
                     => SameVector(f) /\ Perpendicular(f) /\ MagnitudeIs(f, BallOffset)
               /\ WithinOnePixel(f.dfx, (-f.dy) * off, L2)
               /\ WithinOnePixel(f.dtx, (-f.dy) * off, L2)
               /\ WithinOnePixel(f.dfy, f.dx * off, L2)
               /\ WithinOnePixel(f.dty, f.dx * off, L2)
               /\ (\A i \in 1..4 : arrow.line[i] > 0) => SameVector(f)

\* a diagonal next to the left edge: the two endpoints move differently
C8_Witness ==
    /\ ArrowReturned
    /\ seg.ratio = <<1, 1>>
    /\ seg.s = <<1, 1, 7, 7>>
    /\ seg.style = BallStyle
    /\ arrow.line = <<-3, 5, 2, 11>>

(***************************************************************************)
(* C7: the shortening step.                                                *)
(***************************************************************************)
\* C7: with length_ratio < 1.0 the shortening step makes a segment with
\* distinct endpoints strictly shorter than the original; with
\* length_ratio = 1.0 the endpoints stay as they were, however often the
\* step is applied.
C7_ShortenStrictOrIdentity ==
    /\ (napplied >= 1 /\ seg.ratio[1] < seg.ratio[2] /\ Len2(seg.s) > 0)
           => Len2(cur) < Len2(seg.s)
    /\ (pc = "shorten" /\ seg.ratio[1] = seg.ratio[2]) => cur = seg.s

C7_Witness ==
    /\ pc = "shorten"
    /\ napplied = MaxReapply
    /\ seg.ratio = <<3, 4>>
    /\ seg.s = <<0, 0, 1, 0>>
    /\ cur = <<0, 0, 0, 0>>

(***************************************************************************)
(* Claims about compose_step_diagram_separate.                             *)
(***************************************************************************)
ComposeReturned == pc = "compose_returned"

ComposeEnded == pc \in {"compose_returned", "compose_raised"}

StepPlayers == Get(step, "players", << >>)

StepMovements == Get(step, "movements", << >>)

StepBalls == Get(step, "ball_movements", << >>)

PlayersWellFormed == \A i \in 1..Len(StepPlayers) : HasIdAndPosition(StepPlayers[i])

\* the ids the players of the step carry
PlayerIds ==
    { StepPlayers[i]["id"] : i \in { j \in 1..Len(StepPlayers) : "id" \in DOMAIN StepPlayers[j] } }

IsKnown(m) == Get(m, "from_player", "") \in PlayerIds

KnownMovements == SelectSeq(StepMovements, IsKnown)

\* the position the step gives the player called id: the last one listed
PositionOf(id) ==
    LET last == CHOOSE i \in 1..Len(StepPlayers) :
                    /\ StepPlayers[i]["id"] = id
                    /\ \A j \in (i + 1)..Len(StepPlayers) : StepPlayers[j]["id"] # id
    IN  Get(StepPlayers[last], "position", EmptyDict)

\* pixel v is a nearest integer to c * dim, c = <<n, d>>
IsNearestPixel(v, c, dim) == 2 * Abs(v * c[2] - c[1] * dim) <= c[2]

\* pixel v is c * dim rounded down
IsTruncatedPixel(v, c, dim) == v * c[2] <= c[1] * dim /\ c[1] * dim < (v + 1) * c[2]

PixelAt(P(_, _, _), px, py, pos) ==
    /\ P(px, Get(pos, "x", Half), ground_size[1])
    /\ P(py, Get(pos, "y", Half), ground_size[2])

\* every player position and every endpoint handed to _create_arrow_image
\* relates to its relative position as P says
PixelsAre(P(_, _, _)) ==
    /\ Len(bundle.players) = Len(StepPlayers)
    /\ Len(bundle.arrows) = Len(StepBalls) + Len(KnownMovements)
    /\ \A i \in 1..Len(StepPlayers) :
           PixelAt(P, bundle.players[i].x, bundle.players[i].y,
                   Get(StepPlayers[i], "position", EmptyDict))
    /\ \A i \in 1..Len(StepBalls) :
           LET c == bundle.arrows[i].called_with
           IN  /\ PixelAt(P, c[1], c[2], Get(StepBalls[i], "from", EmptyDict))
               /\ PixelAt(P, c[3], c[4], Get(StepBalls[i], "to", EmptyDict))
    /\ \A j \in 1..Len(KnownMovements) :
           LET c == bundle.arrows[Len(StepBalls) + j].called_with
               m == KnownMovements[j]
           IN  /\ PixelAt(P, c[1], c[2], PositionOf(Get(m, "from_player", "")))
               /\ PixelAt(P, c[3], c[4], Get(m, "to_position", EmptyDict))

\* C1 as stated: the pixel position of every player, ball-movement endpoint
\* and player-movement endpoint is (round(x*W), round(y*H)), the nearest
\* integer pixel.
C1_PixelsAreNearest == ComposeReturned => PixelsAre(IsNearestPixel)

\* C1 amended: the pixel position of every player, ball-movement endpoint
\* and player-movement endpoint is (int(x*W), int(y*H)): the product rounded
\* down, not to the nearest pixel.
C1_PixelsAreTruncated == ComposeReturned => PixelsAre(IsTruncatedPixel)

\* 0.75 * 2 = 1.5 becomes pixel 1 for the player, the ball and the movement
C1_Witness ==
    /\ ComposeReturned
    /\ ground_size = <<2, 2>>
    /\ Len(bundle.players) = 1
    /\ Len(bundle.arrows) = 2
    /\ StepPlayers[1]["position"] = [x |-> <<3, 4>>, y |-> <<3, 4>>]
    /\ bundle.players[1].x = 1
    /\ bundle.arrows[1].called_with[1] = 1
    /\ bundle.arrows[2].called_with[2] = 1

RemoveAt(s, i) == SubSeq(s, 1, i - 1) \o SubSeq(s, i + 1, Len(s))

\* C3: a player movement whose from_player is no player's id adds no arrow
\* and raises nothing: the call ends exactly as it does on the step without
\* that movement, and when every player carries an id and a position it
\* returns a bundle with one arrow per ball movement and one per movement
\* of a known player.
C3_UnknownPlayerMovementDropped ==
    ComposeEnded =>
        \A i \in 1..Len(StepMovements) :
            ~IsKnown(StepMovements[i]) =>
                /\ bundle = compose_step_diagram_separate(
                                [step EXCEPT !["movements"] = RemoveAt(@, i)],
                                ground_size[1], ground_size[2])
                /\ PlayersWellFormed =>
                       /\ bundle.status = "ok"
                       /\ Len(bundle.arrows) = Len(StepBalls) + Len(KnownMovements)
                       /\ Len(bundle.players) = Len(StepPlayers)

C3_Witness ==
    /\ ComposeReturned
    /\ Len(StepMovements) = 2
    /\ ~IsKnown(StepMovements[1])
    /\ IsKnown(StepMovements[2])
    /\ Len(StepBalls) = 1
    /\ Len(StepPlayers) = 2
    /\ Len(bundle.arrows) = 2

\* C9 as stated: the 1000x600 scenario yields one player overlay at
\* (500, 300) and two arrows, the player arrow anchored with x strictly
\* between 500 and 700 and y 6 pixels off 300, the ball arrow anchored with
\* y 6 pixels off 300 on the other side of the line y = 300.
C9_ScenarioArrowsOnOppositeSides ==
    (ComposeReturned /\ ground_size = ScenarioGround)
        => /\ Len(bundle.players) = 1
           /\ bundle.players[1].x = 500
           /\ bundle.players[1].y = 300
           /\ Len(bundle.arrows) = 2
           /\ LET b == bundle.arrows[1]
                  p == bundle.arrows[2]
              IN  /\ b.type = "ball"
                  /\ p.type = "player"
                  /\ 500 < p.x /\ p.x < 700
                  /\ Abs(p.y - 300) = 6
                  /\ Abs(b.y - 300) = 6
                  /\ (p.y - 300) * (b.y - 300) < 0

\* C10 as stated: compose_step_diagram_separate never raises, whichever
\* fields of the step are missing: a bundle is always returned.
C10_ComposeNeverRaises == ComposeEnded => bundle.status = "ok"

(***************************************************************************)
(* Claims about the display scale.                                         *)
(***************************************************************************)
ScaleDone == pc = "scale_done"

FitsBudget == ground_size[1] <= max_width /\ ground_size[2] <= max_height

\* C6 as stated: the scale is exactly 1.0 when the ground fits 350x200, and
\* strictly between 0 and 1.0 when it does not.
C6_ScaleOneOrProperFraction ==
    ScaleDone =>
        /\ FitsBudget => display.scale[1] = display.scale[2]
        /\ ~FitsBudget => (0 < display.scale[1] /\ display.scale[1] < display.scale[2])

\* C6 amended: the scale is exactly 1.0 when the ground fits 350x200 and
\* strictly less than 1.0 when it does not; it is never negative, it is
\* greater than 0 when H < 200 * W, and it is 0 when H > 200 * W (the
\* display width int(200 * W / H) is then 0).
C6_ScaleOneOrBelowOne ==
    ScaleDone =>
        /\ FitsBudget => display.scale[1] = display.scale[2]
        /\ ~FitsBudget => (0 <= display.scale[1] /\ display.scale[1] < display.scale[2])
        /\ ground_size[2] < max_height * ground_size[1] => display.scale[1] > 0
        /\ ground_size[2] > max_height * ground_size[1] => display.scale[1] = 0

C6_Witness ==
    /\ ScaleDone
    /\ ground_size = <<1, 201>>
    /\ display.display_width = 0
    /\ display.scale = <<0, 1>>

(***************************************************************************)
(* Claims about the temp files of a generate call.                         *)
(***************************************************************************)
\* C2 as stated: when a generate_practice_menu or generate_from_plan call
\* ends, by returning or by raising, no temp image file written during the
\* call is left in the temp directory.
C2_TempFilesDeletedWhenCallEnds == CallEnded => written \cap tmpdir = {}

(***************************************************************************)
(* Claims about the composer's stored images.                              *)
(***************************************************************************)
ComposerReady == pc = "composer_ready"

\* the stored images are as __init__ left them
AssetsPristine == heap[GroundRef] = LoadedAssets(ground_size[1], ground_size[2])[GroundRef]
                  /\ heap[PersonRef] = LoadedAssets(ground_size[1], ground_size[2])[PersonRef]

\* every image handed out is an object of its own
HandedSeparate ==
    /\ \A i \in 1..Len(handed) : handed[i].ref \notin {GroundRef, PersonRef}
    /\ \A i, j \in 1..Len(handed) : i # j => handed[i].ref # handed[j].ref

\* the composer itself drew nothing on the ground of a bundle
BundleGroundsClean ==
    \A i \in 1..Len(handed) :
        handed[i].by = "compose_step_diagram_separate"
            => \A k \in 1..Len(heap[handed[i].ref].ops) :
                   heap[handed[i].ref].ops[k].op = "caller"

\* a step that draws on an image already made changes that image only
DrawingIsLocal ==
    (handed' = handed /\ DOMAIN heap' = DOMAIN heap)
        => /\ Cardinality({ r \in DOMAIN heap : heap'[r] # heap[r] }) <= 1
           /\ heap'[GroundRef] = heap[GroundRef]
           /\ heap'[PersonRef] = heap[PersonRef]

\* C11: after any sequence of compose_step_diagram_separate,
\* compose_step_diagram, get_ground_image and get_player_image calls the
\* stored ground_image and person_image are as they were after
\* construction; every image handed out, the ground of each bundle
\* included, is a separate object on which the composer drew no overlay;
\* and a caller changing one of them changes neither the stored images nor
\* any other image handed out.
C11_AssetsUnchangedCopiesSeparate ==
    /\ [](ComposerReady => (AssetsPristine /\ HandedSeparate /\ BundleGroundsClean))
    /\ [][DrawingIsLocal]_vars

\* two bundles were composed, a diagram was drawn the old way, and a caller
\* drew on the first bundle's ground only
C11_Witness ==
    /\ ComposerReady
    /\ Len(handed) = 3
    /\ handed[1].by = "compose_step_diagram_separate"
    /\ handed[2].by = "compose_step_diagram_separate"
    /\ handed[3].by = "compose_step_diagram"
    /\ heap[handed[1].ref].ops = << [op |-> "caller"] >>
    /\ heap[handed[2].ref].ops = << >>
    /\ Len(heap[handed[3].ref].ops) > 0
    /\ heap[GroundRef].ops = << >>

(***************************************************************************)
(* Claims about the construction of the agent.                             *)
(***************************************************************************)
AssetMissing == AssetFiles \ assets # {}

\* C12: when ground.png or person.png is absent from the assets directory
\* the request never gets past the construction of its agent: it is still
\* constructing or has raised (FileNotFoundError from ImageComposer, unless
\* LLMClient raised before it), no step was composited, no temp image was
\* written, nothing was added to a workbook and no workbook was saved.
C12_MissingAssetRaisesBeforeCompositing ==
    AssetMissing =>
        /\ pc \in {"constructing", "ValueError", "FileNotFoundError"}
        /\ heap = << >>
        /\ step_images = << >>
        /\ written = {}
        /\ tmpdir = {}
        /\ workbook = << >>
        /\ saved = << >>

\* person.png is absent and the constructor has raised
C12_Witness ==
    /\ assets = {"ground.png"}
    /\ pc = "FileNotFoundError"

(***************************************************************************)
(* Claims about a generate call: the bundles, the sheet, the temp files.   *)
(***************************************************************************)
FromThisCall(e) == e.called = Len(calls)

\* the images the call under way has added to the sheet, in order
CallImages == SelectSeq(workbook, FromThisCall)

\* the images of a bundle in the order _add_separate_images adds them
BundleImages(b) ==
    << b.ground >> \o [p \in 1..Len(b.players) |-> b.players[p].image]
                   \o [a \in 1..Len(b.arrows) |-> b.arrows[a].image]

\* the images the call added for the step with index i (from 0), as saved
SheetImagesOfStep(i) ==
    LET OfStep(e) == e.path[2] = i
        es == SelectSeq(CallImages, OfStep)
    IN  [j \in 1..Len(es) |-> es[j].image]

\* C13: the bundles composed so far are, in order, those of the first steps
\* of the plan; and once the sheet is written (save has been reached) there
\* is exactly one bundle per step, the images embedded for step i are those
\* of bundle i, all on one row, and the rows follow the plan's step order.
C13_BundlesAndRowsInStepOrder ==
    /\ pc \in {"composing", "sheet", "cleanup", "returned"}
           => /\ Len(step_images) <= Len(Steps)
              /\ \A i \in 1..Len(step_images) :
                     step_images[i] = compose_step_diagram_separate(
                                          Steps[i], ground_size[1], ground_size[2])
    /\ pc \in {"cleanup", "returned"}
           => /\ Len(step_images) = Len(Steps)
              /\ \A i \in 1..Len(Steps) :
                     SheetImagesOfStep(i - 1) = BundleImages(step_images[i])
              /\ \A j, k \in 1..Len(CallImages) :
                     /\ j < k => CallImages[j].path[2] <= CallImages[k].path[2]
                     /\ CallImages[j].path[2] < CallImages[k].path[2]
                            <=> CallImages[j].marker_row < CallImages[k].marker_row

\* a two-step plan, the second step with a player and a ball movement: one
\* image on the first step's row, three on the next
C13_Witness ==
    /\ pc = "returned"
    /\ Len(Steps) = 2
    /\ Steps[1] = EmptyDict
    /\ Len(step_images[2].arrows) = 1
    /\ Len(CallImages) = 4
    /\ CallImages[1].marker_row + 1 = CallImages[2].marker_row
    /\ CallImages[4].path = <<"step", 1, "arrow", 0>>

\* a step that removes a file from the temp directory
FileDeleted == tmpdir \ tmpdir' # {}

\* C20: within a generate call every temp path written is distinct from the
\* others; a temp file is deleted only by cleanup, entered after
\* workbook.save has returned with the sheet as it is, or outside any call;
\* and when the call has returned temp_files is empty.
C20_TempFilesKeptUntilSaved ==
    /\ [](pc \in {"sheet", "cleanup", "returned"}
              => Cardinality(written) = Len(CallImages))
    /\ [](pc = "returned" => temp_files = << >>)
    /\ [][FileDeleted
             => \/ pc = "cleanup" /\ saved # << >> /\ saved[Len(saved)] = workbook
                \/ pc \in {"agent_ready", "returned", "raised"}]_vars

\* a call that wrote four temp files has saved and returned: the files are
\* gone and temp_files is empty
C20_Witness ==
    /\ pc = "returned"
    /\ Cardinality(written) = 4
    /\ written \cap tmpdir = {}
    /\ Len(saved) = 1
    /\ Len(saved[1]) = 4

(***************************************************************************)
(* Claims about the display size.                                          *)
(***************************************************************************)
\* the display size is within one pixel of the ground's aspect ratio: the
\* width differs from display_height * W / H by less than 1, or the height
\* from display_width * H / W by less than 1
AspectKept(dw, dh, W, H) ==
    \/ Abs(dw * H - dh * W) < H
    \/ Abs(dh * W - dw * H) < W

\* C14 as stated: for every positive ground size the display size fits
\* the 350x200 budget, is no larger than the ground either way, and keeps
\* the ground's aspect ratio to within less than one pixel.
C14_DisplayFitsAndKeepsAspect ==
    ScaleDone =>
        /\ display.display_width <= max_width
        /\ display.display_height <= max_height
        /\ display.display_width <= ground_size[1]
        /\ display.display_height <= ground_size[2]
        /\ AspectKept(display.display_width, display.display_height,
                      ground_size[1], ground_size[2])

(***************************************************************************)
(* Claims about the placement of the overlays on the sheet.                *)
(***************************************************************************)
Placed == pc = "placed"

\* the overlays of the bundle in the order they are added to the sheet
Overlays == bundle.players \o bundle.arrows

\* |offset + size / 2 - anchor * shown / native| < 2: the overlay's
\* displayed centre is within two pixels of its anchor multiplied by the
\* factor shown / native
CentreFollows(offset, size, anchor, shown, native) ==
    Abs(2 * native * offset + native * size - 2 * anchor * shown) < 4 * native

\* C15 as stated, with two pixels allowed for the truncation of int() and
\* //: the displayed centre of every overlay, measured from the displayed
\* ground's top-left corner, is its anchor multiplied by the factor by
\* which the ground itself was resized, on both axes.
C15_OverlayCentresFollowGround ==
    Placed =>
        \A i \in 1..Len(Overlays) :
            /\ CentreFollows(workbook[1 + i].colOff, workbook[1 + i].width,
                             Overlays[i].x, workbook[1].width, ground_size[1])
            /\ CentreFollows(workbook[1 + i].rowOff, workbook[1 + i].height,
                             Overlays[i].y, workbook[1].height, ground_size[2])

(***************************************************************************)
(* C16: a ball arrow and a player arrow between the same two points.       *)
(***************************************************************************)
\* the pairs <<i, j>> of a ball arrow and a player arrow of the bundle
\* that were asked for between the same two distinct pixels
SharedRoutes ==
    { ij \in (1..Len(bundle.arrows)) \X (1..Len(bundle.arrows)) :
        /\ bundle.arrows[ij[1]].type = "ball"
        /\ bundle.arrows[ij[2]].type = "player"
        /\ bundle.arrows[ij[1]].called_with = bundle.arrows[ij[2]].called_with
        /\ Len2(bundle.arrows[ij[1]].called_with) > 0 }

\* the segment both arrows of a shared route are shortened to
ShortenedRoute(a) == Shorten(a.called_with, DefaultRatio[1], DefaultRatio[2])

\* (to - from) x (point - from): positive on one side of the line through
\* s, negative on the other, and |Side| = distance * length
Side(s, x, y) == (s[3] - s[1]) * (y - s[2]) - (s[4] - s[2]) * (x - s[1])

\* both endpoints of line at distance m from the line through s
DistanceIs(s, line, m) ==
    /\ Side(s, line[1], line[2]) * Side(s, line[1], line[2]) = m * m * Len2(s)
    /\ Side(s, line[3], line[4]) * Side(s, line[3], line[4]) = m * m * Len2(s)

\* the endpoints of two lines m apart, pairwise
ApartBy(l1, l2, m) ==
    /\ (l1[1] - l2[1]) * (l1[1] - l2[1]) + (l1[2] - l2[2]) * (l1[2] - l2[2]) = m * m
    /\ (l1[3] - l2[3]) * (l1[3] - l2[3]) + (l1[4] - l2[4]) * (l1[4] - l2[4]) = m * m

\* the two lines strictly on opposite sides of the line through s
OppositeSides(s, l1, l2) ==
    /\ Side(s, l1[1], l1[2]) * Side(s, l2[1], l2[2]) < 0
    /\ Side(s, l1[3], l1[4]) * Side(s, l2[3], l2[4]) < 0
    /\ Side(s, l1[1], l1[2]) * Side(s, l1[3], l1[4]) > 0

\* each endpoint of line within one pixel, on each axis, of the endpoint
\* of s displaced by off along the unit normal
NearNormal(s, line, off) ==
    LET f == OffsetFacts(s, line, off)
    IN  /\ WithinOnePixel(f.dfx, (-f.dy) * off, Len2(s))
        /\ WithinOnePixel(f.dtx, (-f.dy) * off, Len2(s))
        /\ WithinOnePixel(f.dfy, f.dx * off, Len2(s))
        /\ WithinOnePixel(f.dty, f.dx * off, Len2(s))

\* C16 as stated: a ball arrow and a player arrow of one step between the
\* same two distinct pixels are drawn on opposite sides of the original
\* line, each 6 pixels from it and 12 pixels from each other.
C16_SharedRouteSixEachSide ==
    ComposeReturned =>
        \A ij \in SharedRoutes :
            LET b == bundle.arrows[ij[1]]
                p == bundle.arrows[ij[2]]
            IN  /\ OppositeSides(b.called_with, b.line, p.line)
                /\ DistanceIs(b.called_with, b.line, BallOffset)
                /\ DistanceIs(p.called_with, p.line, BallOffset)
                /\ ApartBy(b.line, p.line, 2 * BallOffset)

\* C16 amended: both arrows are shortened to the same segment.  When that
\* segment has a non-zero length the two drawn segments lie strictly on
\* opposite sides of the line through it, every endpoint within one pixel,
\* on each axis, of the shortened endpoint displaced 6 pixels along the
\* normal (the ball's) or against it (the player's); when it is horizontal
\* or vertical each is exactly 6 pixels from it and they are 12 pixels
\* apart.  When the shortened segment has collapsed to one pixel no offset
\* is applied and the two arrows coincide.
C16_SharedRouteOffsetsWithinTruncation ==
    ComposeReturned =>
        \A ij \in SharedRoutes :
            LET b == bundle.arrows[ij[1]]
                p == bundle.arrows[ij[2]]
                s == ShortenedRoute(b)
            IN  IF Len2(s) = 0
                THEN b.line = s /\ p.line = s /\ b.x = p.x /\ b.y = p.y
                ELSE /\ OppositeSides(s, b.line, p.line)
                     /\ NearNormal(s, b.line, BallOffset)
                     /\ NearNormal(s, p.line, PlayerOffset)
                     /\ (s[1] = s[3] \/ s[2] = s[4])
                            => /\ DistanceIs(s, b.line, BallOffset)
                               /\ DistanceIs(s, p.line, BallOffset)
                               /\ ApartBy(b.line, p.line, 2 * BallOffset)

\* a slanted shared route on the 40x24 ground: the two arrows end up
\* (-2, 5) and (1, -5) away from the shortened segment, not 6 away
C16_Witness ==
    /\ ComposeReturned
    /\ ground_size = SampleGround
    /\ SharedRoutes = { <<1, 2>> }
    /\ bundle.arrows[1].called_with = <<0, 0, 30, 6>>
    /\ Len2(ShortenedRoute(bundle.arrows[1])) > 0
    /\ bundle.arrows[1].line # bundle.arrows[2].line

(***************************************************************************)
(* C17: the bundle keeps the overlays separate and in order.               *)
(***************************************************************************)
\* the endpoints a movement from from_pos to to_pos is drawn between
RouteOf(from_pos, to_pos) ==
    << to_pixel(from_pos, "x", ground_size[1]), to_pixel(from_pos, "y", ground_size[2]),
       to_pixel(to_pos, "x", ground_size[1]),   to_pixel(to_pos, "y", ground_size[2]) >>

\* the arrow entry is the arrow of the i-th ball movement of the step
IsBallArrowOf(a, i) ==
    /\ a.type = "ball"
    /\ a.called_with = RouteOf(Get(StepBalls[i], "from", EmptyDict),
                               Get(StepBalls[i], "to", EmptyDict))

\* the arrow entry is the arrow of the j-th movement of a known player
IsPlayerArrowOf(a, j) ==
    /\ a.type = "player"
    /\ a.called_with = RouteOf(PositionOf(KnownMovements[j]["from_player"]),
                               Get(KnownMovements[j], "to_position", EmptyDict))

\* the player entry is the marker of the i-th player of the step
IsMarkerOf(e, i) ==
    /\ e.label = StepPlayers[i]["id"]
    /\ e.image.label = StepPlayers[i]["id"]
    /\ e.x = to_pixel(StepPlayers[i]["position"], "x", ground_size[1])
    /\ e.y = to_pixel(StepPlayers[i]["position"], "y", ground_size[2])

\* an arrow image holds one stroke at most and one head, nothing else
HoldsOneArrow(img) ==
    /\ Len(img.ops) \in {1, 2}
    /\ img.ops[Len(img.ops)].op = "polygon"
    /\ Len(img.ops) = 2 => img.ops[1].op \in {"line", "dashes"}

PlacedCorner(a) == << a.x - a.image.width \div 2, a.y - a.image.height \div 2 >>

\* the ground pixel under the image's pixel pt
OnGround(a, pt) == << PlacedCorner(a)[1] + pt[1], PlacedCorner(a)[2] + pt[2] >>

\* a drawing call's start and end, or the head's tip, fall on the ends of
\* the segment line
DrawnOn(a, op, line) ==
    IF op.op = "polygon"
    THEN OnGround(a, op.tip) = <<line[3], line[4]>>
    ELSE /\ OnGround(a, op.from) = <<line[1], line[2]>>
         /\ OnGround(a, op.to) = <<line[3], line[4]>>

\* C18: with the image's centre pixel on the returned anchor, the stroke
\* starts and ends, and the head has its tip, exactly on the ground
\* coordinates of the shortened and offset segment; the anchor is the
\* centre of the padded bounding box of that segment.
C18_AnchorPutsArrowOnSegment ==
    ArrowReturned =>
        LET line == ApplyOffset(Shortened, seg.style.off)
        IN  /\ arrow.line = line
            /\ \A k \in 1..Len(arrow.image.ops) : DrawnOn(arrow, arrow.image.ops[k], line)
            /\ PlacedCorner(arrow) = << Min(line[1], line[3]) - padding,
                                        Min(line[2], line[4]) - padding >>
            /\ arrow.image.width = Max(line[1], line[3]) - Min(line[1], line[3]) + 2 * padding
            /\ arrow.image.height = Max(line[2], line[4]) - Min(line[2], line[4]) + 2 * padding

\* an arrow pointing up and to the left whose image has an odd width and
\* an odd height, part of it left of the ground
C18_Witness ==
    /\ ArrowReturned
    /\ Len(arrow.image.ops) = 2
    /\ arrow.line[1] > arrow.line[3]
    /\ arrow.line[2] > arrow.line[4]
    /\ arrow.image.width % 2 = 1
    /\ arrow.image.height % 2 = 1
    /\ PlacedCorner(arrow)[1] < 0

(***************************************************************************)
(* C19: the canvas of a labelled player.                                   *)
(***************************************************************************)
LabelReturned == pc = "label_returned"

\* C19: the canvas is as wide as the wider of the person image and
\* 8 * len(label) + 8, and 20 pixels higher than the person image; the
\* figure is pasted at x = (canvas_width - person_width) // 2, so that the
\* margins left and right of it differ by one pixel at most, and at y = 20,
\* below the label band.
C19_LabeledPlayerCanvas ==
    LabelReturned =>
        LET person_w == heap[PersonRef].width
            person_h == heap[PersonRef].height
            right    == arrow.width - (arrow.person_x + person_w)
        IN  /\ arrow.width = Max(person_w, 8 * Len(seg.label) + 8)
            /\ arrow.height = person_h + 20
            /\ arrow.person_x = (arrow.width - person_w) \div 2
            /\ arrow.person_x >= 0
            /\ right - arrow.person_x \in {0, 1}
            /\ arrow.person_y = 20
            /\ arrow.person_y + person_h = arrow.height

\* a label wider than a person image of odd width: the margins differ
C19_Witness ==
    /\ LabelReturned
    /\ Len(seg.label) > 2
    /\ arrow.width > heap[PersonRef].width
    /\ arrow.person_x > 0
    /\ (arrow.width - heap[PersonRef].width) % 2 = 1

(***************************************************************************)
(* C23: a ball arrow and a player arrow going opposite ways between the    *)
(* same two points.                                                        *)
(***************************************************************************)
\* the segment s travelled the other way
Reversed(s) == << s[3], s[4], s[1], s[2] >>

\* the pairs <<i, j>> of a ball arrow from P to Q and a player arrow from
\* Q to P, P and Q distinct pixels
CrossingRoutes ==
    { ij \in (1..Len(bundle.arrows)) \X (1..Len(bundle.arrows)) :
        /\ bundle.arrows[ij[1]].type = "ball"
        /\ bundle.arrows[ij[2]].type = "player"
        /\ bundle.arrows[ij[1]].called_with = Reversed(bundle.arrows[ij[2]].called_with)
        /\ Len2(bundle.arrows[ij[1]].called_with) > 0 }

\* C23 as stated: a ball arrow from P to Q and a player arrow from Q to P
\* are not drawn on the same line: they are displaced to opposite sides of
\* the line PQ.
C23_CrossingArrowsOnOppositeSides ==
    ComposeReturned =>
        \A ij \in CrossingRoutes :
            /\ bundle.arrows[ij[1]].line # Reversed(bundle.arrows[ij[2]].line)
            /\ OppositeSides(bundle.arrows[ij[1]].called_with,
                             bundle.arrows[ij[1]].line, bundle.arrows[ij[2]].line)

(***************************************************************************)
(* C21: successive generate calls on one agent.                            *)
(***************************************************************************)
\* an earlier call on the agent saved its workbook, and the call under way
\* has reached its own ExcelGenerator.save
AtLaterSave == pc = "sheet" /\ idx = Len(Steps) /\ Len(saved) >= 1

\* C21 as stated: when a call that follows a completed call reaches its
\* save, the workbook embeds the images of this call's plan only, and every
\* image the workbook refers to has its temp file present.
C21_LaterCallIndependent ==
    AtLaterSave =>
        \A i \in 1..Len(workbook) :
            /\ FromThisCall(workbook[i])
            /\ workbook[i].path \in tmpdir

(***************************************************************************)
(* C22: two ExcelGenerators sharing the temp directory.                    *)
(***************************************************************************)
\* the request has written temp files and has not saved its workbook yet
NeedsItsFiles(r) == gens[r].pc = "sheet" /\ gens[r].temp_files # << >>

\* C22 as stated: the temp paths two generators in flight have written
\* never coincide, and as long as a generator has not saved its workbook
\* every file it wrote is still there as it wrote it.
C22_InFlightTempFilesApart ==
    \A r \in Requests :
        /\ \A o \in Requests \ {r} :
               Range(gens[r].temp_files) \cap Range(gens[o].temp_files) = {}
        /\ NeedsItsFiles(r) =>
               \A i \in 1..Len(gens[r].temp_files) :
                   /\ gens[r].temp_files[i] \in DOMAIN shared_tmp
                   /\ shared_tmp[gens[r].temp_files[i]] = r
====
